---- MODULE Spec2Model ----
(***************************************************************************)
(* Model of the pydantic-ai practice applications:                         *)
(*   - MessageDatabase (chat_app/streamlit_chat_app.py): the JSON-lines    *)
(*     message store, add_messages / get_messages;                         *)
(*   - ChatUI (chat_app/streamlit_chat_app.py): one Streamlit session,     *)
(*     script runs and the steps of handle_user_input;                     *)
(*   - chatbot.py: its session list and the Clear Chat button;             *)
(*   - create_location_map (create_map_func.py, streamlit_chat_app.py)     *)
(*     and the script body of app.py: geocoding with st.cache_data.        *)
(***************************************************************************)
EXTENDS Integers, Sequences, FiniteSets, TLC

VARIABLES
    file,        \* text of chat_app_messages.jsonl, as a sequence of chunks
    loaded,      \* messages yielded by the last get_messages call
    loadStatus,  \* "none": no load since the last change, "done", "raised"
    written,     \* history: (role, content) of every message add_messages wrote
    addStatus,   \* outcome of the last add_messages call: "none", "ok", "raised"
    geoCache,    \* st.cache_data of get_location_coordinates in create_location_map
    geoCalls,    \* history: geolocator.geocode calls per place name (tool)
    mapState,    \* st.session_state.map
    lastResolve, \* history: the last resolution (caller, name, answer, outcome)
    firstCoords, \* history: coordinates of the first resolution of each name
    appCache,    \* st.cache_data of get_location_coordinates in app.py
    appCalls,    \* history: geolocator.geocode calls per place name (app.py)
    appSession,  \* app.py: previous_location, latitude, longitude
    resolves,    \* number of resolutions made
    sessionInit, \* "messages" in st.session_state (chat_app)
    session,     \* st.session_state.messages (chat_app)
    pc,          \* position of the script run of the chat_app session
    prompt,      \* the prompt of the current turn
    fullResponse, \* full_response of _process_response
    streams,     \* number of response streams currently open
    turn,        \* number of turns begun
    log,         \* history: the events of the current turn, in order
    turnFile,    \* history: the file when the current turn began
    cbMessages,  \* st.session_state.messages of chatbot.py
    cbCleared    \* history: Clear Chat has emptied a non-empty list

storeVars == <<file, loaded, loadStatus, written, addStatus>>

mapVars == <<geoCache, geoCalls, mapState, lastResolve, firstCoords, appCache,
             appCalls, appSession, resolves>>

uiVars == <<sessionInit, session, pc, prompt, fullResponse, streams, turn, log,
            turnFile>>

vars == <<file, loaded, loadStatus, written, addStatus, geoCache, geoCalls,
          mapState, lastResolve, firstCoords, appCache, appCalls, appSession,
          resolves, sessionInit, session, pc, prompt, fullResponse, streams,
          turn, log, turnFile, cbMessages, cbCleared>>

cbVars == <<cbMessages, cbCleared>>

----------------------------------------------------------------------------
(* Bounds *)

\* total number of messages the backing file may hold
MaxMsgs == 3
\* number of lines the backing file may hold
MaxLines == 2
\* number of array elements a file written outside the program may hold
MaxFileElems == 2
\* number of map resolutions
MaxResolves == 3
\* number of user turns of the chat_app session
MaxTurns == 2
\* length of the chatbot.py session list
MaxCbLen == 3

----------------------------------------------------------------------------
(* Values *)

\* marks an attribute an object does not have / a key a JSON object lacks
Absent == "<absent>"
NoExc == "<none>"

\* the str contents used; the second one holds a line feed
Contents == {"Hi", "two<LF>lines"}

\* the datetime values used (datetime.now() and stored timestamps)
Datetimes == {"datetime(2024,1,1)"}

\* datetime.isoformat()
IsoFormat(dt) == IF dt = "datetime(2024,1,1)" THEN "2024-01-01T00:00:00" ELSE Absent

\* datetime.fromisoformat(): exc is set when the string is no ISO-8601 date
FromIsoFormat(s) ==
    IF s = "2024-01-01T00:00:00"
    THEN [exc |-> NoExc, v |-> "datetime(2024,1,1)"]
    ELSE [exc |-> "ValueError", v |-> Absent]

\* datetime.now()
Now == "datetime(2024,1,1)"

\* json.dumps of a str: quoted, control characters escaped (ensure_ascii)
JsonEncodeStr(s) ==
    CASE s = "Hi" -> "\"Hi\""
      [] s = "two<LF>lines" -> "\"two\\nlines\""
      [] s = "He" -> "\"He\""
      [] s = "Hello" -> "\"Hello\""
      [] s = "user" -> "\"user\""
      [] s = "model-text-response" -> "\"model-text-response\""
      [] s = "system" -> "\"system\""
      [] s = "tool-return" -> "\"tool-return\""
      [] s = "retry" -> "\"retry\""
      [] s = "model-structured-response" -> "\"model-structured-response\""
      [] s = "assistant" -> "\"assistant\""
      [] s = "2024-01-01T00:00:00" -> "\"2024-01-01T00:00:00\""
      [] s = "not-a-date" -> "\"not-a-date\""
      [] OTHER -> Absent

\* the strings json.dumps can be given here
JsonStrings ==
    Contents \cup {"He", "Hello", "user", "model-text-response", "system", "tool-return", "retry",
                   "model-structured-response", "assistant", "2024-01-01T00:00:00",
                   "not-a-date"}

\* json.loads of a JSON token: a str for a string token, the token itself
\* (a number, null) otherwise
JsonDecodeValue(tok) ==
    IF \E s \in JsonStrings : JsonEncodeStr(s) = tok
    THEN CHOOSE s \in JsonStrings : JsonEncodeStr(s) = tok
    ELSE tok

\* isinstance(v, str) for a decoded JSON value
IsStr(v) == v \in JsonStrings

----------------------------------------------------------------------------
(* Message classes of pydantic_ai.messages, as the store uses them *)

\* keys of role_to_class
KnownRoles ==
    {"user", "model-text-response", "system", "tool-return", "retry",
     "model-structured-response"}

\* role_to_class.get(role): the class name, Absent (None) for any other role
RoleToClass(role) ==
    CASE role = "user" -> "UserPrompt"
      [] role = "model-text-response" -> "ModelTextResponse"
      [] role = "system" -> "SystemPrompt"
      [] role = "tool-return" -> "ToolReturn"
      [] role = "retry" -> "RetryPrompt"
      [] role = "model-structured-response" -> "ModelStructuredResponse"
      [] OTHER -> Absent

\* keyword arguments each imported dataclass accepts: SystemPrompt has no
\* timestamp field, ModelStructuredResponse has calls and no content
InitParams(cls) ==
    CASE cls = "UserPrompt" -> {"content", "timestamp", "role"}
      [] cls = "ModelTextResponse" -> {"content", "timestamp", "role"}
      [] cls = "SystemPrompt" -> {"content", "role"}
      [] cls = "ToolReturn" -> {"tool_name", "content", "timestamp", "role"}
      [] cls = "RetryPrompt" -> {"content", "tool_name", "timestamp", "role"}
      [] cls = "ModelStructuredResponse" -> {"calls", "timestamp", "role"}
      [] OTHER -> {}

\* keyword arguments without a default
RequiredParams(cls) ==
    CASE cls = "UserPrompt" -> {"content"}
      [] cls = "ModelTextResponse" -> {"content"}
      [] cls = "SystemPrompt" -> {"content"}
      [] cls = "ToolReturn" -> {"tool_name", "content"}
      [] cls = "RetryPrompt" -> {"content"}
      [] cls = "ModelStructuredResponse" -> {"calls"}
      [] OTHER -> {}

\* a message object: the attributes the application reads (Absent: no such
\* attribute)
Msg(role, content, timestamp) ==
    [role |-> role, content |-> content, timestamp |-> timestamp]

NoMsg == Msg(Absent, Absent, Absent)

\* UserPrompt(content=...), line 259: timestamp defaults to now
UserPrompt(content) == Msg("user", content, Now)

\* ModelTextResponse(content=..., timestamp=datetime.now()), lines 278-280
ModelTextResponse(content) == Msg("model-text-response", content, Now)

\* the Message objects add_messages is given: one per class of the Message
\* union, and an object whose role is not in role_to_class
MessageObjects ==
    {UserPrompt("Hi"), ModelTextResponse("two<LF>lines"),
     Msg("system", "Hi", Absent),
     Msg("tool-return", "Hi", Now),
     Msg("retry", "Hi", Now),
     Msg("model-structured-response", Absent, Now),
     Msg("assistant", "Hi", Now)}

\* the (role, content) pair of a message
Pair(m) == <<m.role, m.content>>

Pairs(ms) == [i \in 1..Len(ms) |-> Pair(ms[i])]

----------------------------------------------------------------------------
(* JSON values and the text of the file *)

\* a dict / JSON object with the keys the classes know (Absent: key missing);
\* kind "number" is an array element that is no object
Obj(role, content, timestamp, tool_name, calls) ==
    [kind |-> "object", role |-> role, content |-> content,
     timestamp |-> timestamp, tool_name |-> tool_name, calls |-> calls]

NumberElem == [kind |-> "number", role |-> Absent, content |-> Absent,
               timestamp |-> Absent, tool_name |-> Absent, calls |-> Absent]

\* keys present in a dict
Keys(d) ==
    {k \in {"role", "content", "timestamp", "tool_name", "calls"} :
        CASE k = "role" -> d.role # Absent
          [] k = "content" -> d.content # Absent
          [] k = "timestamp" -> d.timestamp # Absent
          [] k = "tool_name" -> d.tool_name # Absent
          [] k = "calls" -> d.calls # Absent}

EncodeField(v) == IF v = Absent THEN Absent ELSE JsonEncodeStr(v)

DecodeField(v) == IF v = Absent THEN Absent ELSE JsonDecodeValue(v)

\* json.dumps of one dict of str values
JsonDumpsObj(d) ==
    [kind |-> d.kind, role |-> EncodeField(d.role), content |-> EncodeField(d.content),
     timestamp |-> EncodeField(d.timestamp), tool_name |-> EncodeField(d.tool_name),
     calls |-> EncodeField(d.calls)]

\* json.loads of one array element
JsonLoadsElem(e) ==
    [kind |-> e.kind, role |-> DecodeField(e.role), content |-> DecodeField(e.content),
     timestamp |-> DecodeField(e.timestamp), tool_name |-> DecodeField(e.tool_name),
     calls |-> DecodeField(e.calls)]

\* chunks of file text: a line feed, white space, a complete JSON text
\* without a raw line feed, text that is no JSON
NL == [t |-> "nl", j |-> "none", elems |-> <<>>]
Blank == [t |-> "blank", j |-> "none", elems |-> <<>>]
Garbage == [t |-> "garbage", j |-> "none", elems |-> <<>>]
NonArrayText == [t |-> "text", j |-> "object", elems |-> <<>>]
ArrayText(elems) == [t |-> "text", j |-> "array", elems |-> elems]

\* json.dumps(messages_data): one JSON array on a single line
JsonDumps(data) == ArrayText([i \in 1..Len(data) |-> JsonDumpsObj(data[i])])

\* index of the first line feed of f, Len(f) when it has none
LineEnd(f) ==
    IF \E i \in 1..Len(f) : f[i].t = "nl"
    THEN CHOOSE i \in 1..Len(f) : f[i].t = "nl" /\ \A k \in 1..(i - 1) : f[k].t # "nl"
    ELSE Len(f)

\* "for line in f": the lines of the text, each with its line feed
RECURSIVE SplitLines(_)
SplitLines(f) ==
    IF f = <<>> THEN <<>>
    ELSE <<SubSeq(f, 1, LineEnd(f))>> \o SplitLines(SubSeq(f, LineEnd(f) + 1, Len(f)))

\* line.strip()
Strip(line) == SelectSeq(line, LAMBDA c : c.t \notin {"nl", "blank"})

\* json.loads(line): the text must hold exactly one JSON value
JsonLoads(line) ==
    LET text == Strip(line) IN
    IF Len(text) = 1 /\ text[1].t = "text"
    THEN [exc |-> NoExc, j |-> text[1].j,
          v |-> [i \in 1..Len(text[1].elems) |-> JsonLoadsElem(text[1].elems[i])]]
    ELSE [exc |-> "JSONDecodeError", j |-> "none", v |-> <<>>]

----------------------------------------------------------------------------
(* MessageDatabase *)

\* _serialize_message, lines 149-164. The imported classes are dataclasses
\* without model_dump, so the fallback dict is built; reading msg.content of
\* an object without that attribute raises.
SerializeMessage(msg) ==
    IF msg.content = Absent \/ msg.role = Absent
    THEN [exc |-> "AttributeError", d |-> NumberElem]
    ELSE [exc |-> NoExc,
          d |-> Obj(msg.role, msg.content,
                    IF msg.timestamp # Absent THEN IsoFormat(msg.timestamp)
                    ELSE IsoFormat(Now),
                    Absent, Absent)]

\* a writer that forgets the line feed
AppendedTextNoNewline(messages) ==
    <<JsonDumps([i \in 1..Len(messages) |-> SerializeMessage(messages[i]).d])>>

\* the text add_messages appends for messages that all serialize:
\* f.write(json_data + "\n"), lines 145-147
AppendedText(messages) ==
    <<JsonDumps([i \in 1..Len(messages) |-> SerializeMessage(messages[i]).d]), NL>>

\* add_messages raises when a message does not serialize (line 145), before
\* anything is written to the file opened for append
AddRaises(messages) ==
    \E i \in 1..Len(messages) : SerializeMessage(messages[i]).exc # NoExc

\* message_class(**msg_data), line 216: a dataclass constructor rejects
\* unknown keywords and missing required ones, and validates nothing else
Construct(cls, d) ==
    IF ~(Keys(d) \subseteq InitParams(cls)) \/ ~(RequiredParams(cls) \subseteq Keys(d))
    THEN [exc |-> "TypeError", msg |-> NoMsg]
    ELSE [exc |-> NoExc,
          msg |-> Msg(d.role, d.content,
                      IF d.timestamp # Absent THEN d.timestamp
                      ELSE IF "timestamp" \in InitParams(cls) THEN Now ELSE Absent)]

\* _create_message_by_role, lines 202-217
CreateMessageByRole(d) ==
    IF RoleToClass(d.role) # Absent
    THEN Construct(RoleToClass(d.role), d)
    ELSE [exc |-> "ValueError", msg |-> NoMsg]

\* body of the try of _parse_messages for one element, lines 192-198
ParseElement(d) ==
    IF d.kind # "object"
    THEN [exc |-> "AttributeError", msg |-> NoMsg]
    ELSE IF IsStr(d.timestamp)
         THEN LET parsed == FromIsoFormat(d.timestamp) IN
              IF parsed.exc # NoExc
              THEN [exc |-> parsed.exc, msg |-> NoMsg]
              ELSE CreateMessageByRole([d EXCEPT !.timestamp = parsed.v])
         ELSE CreateMessageByRole(d)

\* a parser whose try encloses the loop: the first failing element ends the
\* array
RECURSIVE ParseMessagesTryOutsideLoop(_)
ParseMessagesTryOutsideLoop(data) ==
    IF data = <<>> THEN [out |-> <<>>, exc |-> NoExc]
    ELSE LET first == ParseElement(Head(data)) IN
         IF first.exc # NoExc
         THEN [out |-> <<>>, exc |-> NoExc]
         ELSE [out |-> <<first.msg>> \o ParseMessagesTryOutsideLoop(Tail(data)).out,
               exc |-> NoExc]

\* _parse_messages, lines 187-200: the try is inside the loop, so a failing
\* element is printed and the loop goes on. out: the messages yielded,
\* exc: an exception leaving the generator.
RECURSIVE ParseMessages(_)
ParseMessages(data) ==
    IF data = <<>> THEN [out |-> <<>>, exc |-> NoExc]
    ELSE LET first == ParseElement(Head(data))
             rest == ParseMessages(Tail(data))
         IN IF first.exc # NoExc
            THEN rest
            ELSE [out |-> <<first.msg>> \o rest.out, exc |-> rest.exc]

\* one iteration of the loop of get_messages, lines 177-185: what the line
\* yields; every exception of json.loads and of _parse_messages is caught
\* at line 184, after what was already yielded
ReadLine(line) ==
    IF Strip(line) = <<>> THEN [out |-> <<>>, exc |-> NoExc]
    ELSE LET messages_data == JsonLoads(line) IN
         IF messages_data.exc # NoExc THEN [out |-> <<>>, exc |-> NoExc]
         ELSE IF messages_data.j = "array"
              THEN [out |-> ParseMessages(messages_data.v).out, exc |-> NoExc]
              ELSE [out |-> <<>>, exc |-> NoExc]

\* the loop of get_messages over the lines, lines 176-185: an exception
\* leaving an iteration ends the generator
RECURSIVE ReadLines(_)
ReadLines(lines) ==
    IF lines = <<>> THEN [out |-> <<>>, exc |-> NoExc]
    ELSE LET first == ReadLine(Head(lines))
             rest == ReadLines(Tail(lines))
         IN IF first.exc # NoExc
            THEN first
            ELSE [out |-> first.out \o rest.out, exc |-> rest.exc]

\* get_messages, lines 166-185, consumed to the end; a file that does not
\* exist and an empty one both yield nothing
GetMessagesOf(f) == ReadLines(SplitLines(f))

\* number of messages (array elements) in the file
RECURSIVE CountElems(_)
CountElems(f) ==
    IF f = <<>> THEN 0 ELSE Len(Head(f).elems) + CountElems(Tail(f))

\* number of line feeds in the file
CountLines(f) == Len(SelectSeq(f, LAMBDA c : c.t = "nl"))

\* the message lists a call may pass, within the room left in the file
SeqsUpTo(S, n) == UNION {[1..k -> S] : k \in 0..n}

\* add_messages(messages), lines 138-147
AddMessages(messages) ==
    /\ IF AddRaises(messages)
       THEN /\ addStatus' = "raised"
            /\ UNCHANGED <<file, written>>
       ELSE /\ addStatus' = "ok"
            /\ file' = file \o AppendedText(messages)
            /\ written' = written \o Pairs(messages)
    /\ loaded' = <<>>
    /\ loadStatus' = "none"

\* list(get_messages()), lines 166-185
GetMessages ==
    /\ loadStatus = "none"
    /\ LET result == GetMessagesOf(file) IN
          /\ loaded' = result.out
          /\ loadStatus' = IF result.exc = NoExc THEN "done" ELSE "raised"
    /\ UNCHANGED <<file, written, addStatus>>

StoreInit ==
    /\ file = <<>>
    /\ loaded = <<>>
    /\ loadStatus = "none"
    /\ written = <<>>
    /\ addStatus = "none"

----------------------------------------------------------------------------
(* Loading a file whose text was not written by add_messages *)

IsoText == "2024-01-01T00:00:00"

\* array elements found in such files: two well-formed messages, a bad
\* timestamp, a number, a SystemPrompt with a timestamp (constructor
\* error), an unknown role
FileElements ==
    {JsonDumpsObj(Obj("user", "Hi", IsoText, Absent, Absent)),
     JsonDumpsObj(Obj("model-text-response", "two<LF>lines", IsoText, Absent, Absent)),
     JsonDumpsObj(Obj("user", "Hi", "not-a-date", Absent, Absent)),
     NumberElem,
     JsonDumpsObj(Obj("system", "Hi", IsoText, Absent, Absent)),
     JsonDumpsObj(Obj("assistant", "Hi", IsoText, Absent, Absent))}

\* a line is added to the file from outside: blank, no JSON, JSON that is
\* no array, or an empty array
ExternalWriteLine(chunk) ==
    /\ file' = file \o <<chunk, NL>>
    /\ loaded' = <<>>
    /\ loadStatus' = "none"
    /\ UNCHANGED <<written, addStatus>>

\* an element is added to the array of the last line
ExternalWriteElement(e) ==
    /\ Len(file) >= 2
    /\ file[Len(file) - 1].t = "text"
    /\ file[Len(file) - 1].j = "array"
    /\ file' = [file EXCEPT ![Len(file) - 1] =
                    ArrayText(Append(file[Len(file) - 1].elems, e))]
    /\ loaded' = <<>>
    /\ loadStatus' = "none"
    /\ UNCHANGED <<written, addStatus>>

----------------------------------------------------------------------------
(* Map resolution: create_location_map and app.py *)

\* default_lat, default_lon: degrees * 10^6
DEFAULT_LAT == 39949610
DEFAULT_LON == -75150282

PlaceNames == {"Kaohsiung", "Taipei 101"}

Coord(lat, lon) == [lat |-> lat, lon |-> lon]

NoCoord == Coord(0, 0)

\* what geolocator.geocode may do: raise, return None, return a Location
GeocoderAnswers ==
    {[kind |-> "raise", c |-> NoCoord], [kind |-> "none", c |-> NoCoord],
     [kind |-> "match", c |-> Coord(22620000, 120310000)],
     [kind |-> "match", c |-> Coord(25030000, 121560000)]}

NotAsked == [kind |-> "cached", c |-> NoCoord]

\* value of get_location_coordinates: None or (latitude, longitude)
None == [found |-> FALSE, c |-> NoCoord]
Found(c) == [found |-> TRUE, c |-> c]

\* an entry of the st.cache_data cache of get_location_coordinates
Uncached == [hit |-> FALSE, v |-> None]
Cached(v) == [hit |-> TRUE, v |-> v]

\* body of get_location_coordinates, app.py lines 34-41: a Location gives
\* its coordinates, None and any exception give None
GetLocationCoordinates(answer) ==
    IF answer.kind = "match" THEN Found(answer.c) ELSE None

\* a cache that keeps only the successful lookups
CacheAfterHitsOnly(cache, name, answer) ==
    IF cache[name].hit \/ GetLocationCoordinates(answer) = None THEN cache
    ELSE [cache EXCEPT ![name] = Cached(GetLocationCoordinates(answer))]

\* @st.cache_data: the first call for an argument runs the body and stores
\* its value, None included; no ttl, no max_entries
CacheAfter(cache, name, answer) ==
    IF cache[name].hit THEN cache
    ELSE [cache EXCEPT ![name] = Cached(GetLocationCoordinates(answer))]

\* the value the cached function returns for the call
CachedCall(cache, name, answer) ==
    IF cache[name].hit THEN cache[name].v ELSE GetLocationCoordinates(answer)

\* coordinates that ignore the lookup
ChooseCoordinatesDefaultOnly(coordinates) == Coord(DEFAULT_LAT, DEFAULT_LON)

\* "if coordinates: ... else: ..." of create_location_map,
\* create_map_func.py lines 47-51
ChooseCoordinates(coordinates) ==
    IF coordinates.found THEN coordinates.c ELSE Coord(DEFAULT_LAT, DEFAULT_LON)

\* create_map: a folium map centred on the coordinates, one marker
CreateMap(c, name) == [built |-> TRUE, c |-> c, popup |-> name]

NoMap == [built |-> FALSE, c |-> NoCoord, popup |-> ""]

\* the record of one resolution
Resolution(by, name, answer, c, notice, map) ==
    [by |-> by, name |-> name, answer |-> answer, c |-> c, notice |-> notice,
     map |-> map]

NoResolution == Resolution("none", "", NotAsked, NoCoord, FALSE, NoMap)

\* the geocoder's answer as far as the call saw it
Seen(cache, name, answer) == IF cache[name].hit THEN NotAsked ELSE answer

NoFirst == [seen |-> FALSE, c |-> NoCoord]

\* create_location_map(location_name), create_map_func.py lines 7-55 and
\* streamlit_chat_app.py lines 77-125
CreateLocationMap(name, answer) ==
    /\ geoCache' = CacheAfter(geoCache, name, answer)
    /\ geoCalls' = IF geoCache[name].hit THEN geoCalls
                   ELSE [geoCalls EXCEPT ![name] = @ + 1]
    /\ mapState' = CreateMap(ChooseCoordinates(CachedCall(geoCache, name, answer)), name)
    /\ lastResolve' =
          Resolution("tool", name, Seen(geoCache, name, answer),
                     ChooseCoordinates(CachedCall(geoCache, name, answer)),
                     ~CachedCall(geoCache, name, answer).found,
                     CreateMap(ChooseCoordinates(CachedCall(geoCache, name, answer)), name))
    /\ firstCoords' =
          IF firstCoords[<<"tool", name>>].seen THEN firstCoords
          ELSE [firstCoords EXCEPT ![<<"tool", name>>] =
                    [seen |-> TRUE,
                     c |-> ChooseCoordinates(CachedCall(geoCache, name, answer))]]
    /\ resolves' = resolves + 1

\* one run of the script app.py with the text input holding user_location,
\* lines 11-65; the map is rebuilt from the session's coordinates each run
AppScript(user_location, answer) ==
    /\ IF user_location # appSession.previous_location
       THEN IF user_location # ""
            THEN /\ appCache' = CacheAfter(appCache, user_location, answer)
                 /\ appCalls' = IF appCache[user_location].hit THEN appCalls
                                ELSE [appCalls EXCEPT ![user_location] = @ + 1]
                 /\ appSession' =
                       [previous_location |-> user_location,
                        c |-> ChooseCoordinates(CachedCall(appCache, user_location, answer))]
                 /\ lastResolve' =
                       Resolution("app", user_location, Seen(appCache, user_location, answer),
                           ChooseCoordinates(CachedCall(appCache, user_location, answer)),
                           ~CachedCall(appCache, user_location, answer).found,
                           CreateMap(ChooseCoordinates(
                               CachedCall(appCache, user_location, answer)), user_location))
                 /\ firstCoords' =
                       IF firstCoords[<<"app", user_location>>].seen THEN firstCoords
                       ELSE [firstCoords EXCEPT ![<<"app", user_location>>] =
                                [seen |-> TRUE,
                                 c |-> ChooseCoordinates(
                                          CachedCall(appCache, user_location, answer))]]
                 /\ resolves' = resolves + 1
            ELSE /\ appSession' = [previous_location |-> user_location,
                                   c |-> Coord(DEFAULT_LAT, DEFAULT_LON)]
                 /\ lastResolve' = NoResolution
                 /\ UNCHANGED <<appCache, appCalls, firstCoords, resolves>>
       ELSE /\ lastResolve' = NoResolution
            /\ UNCHANGED <<appCache, appCalls, appSession, firstCoords, resolves>>

MapInit ==
    /\ geoCache = [n \in PlaceNames |-> Uncached]
    /\ geoCalls = [n \in PlaceNames |-> 0]
    /\ mapState = NoMap
    /\ lastResolve = NoResolution
    /\ firstCoords = [k \in {"tool", "app"} \X PlaceNames |-> NoFirst]
    /\ appCache = [n \in PlaceNames |-> Uncached]
    /\ appCalls = [n \in PlaceNames |-> 0]
    /\ appSession = [previous_location |-> "", c |-> Coord(DEFAULT_LAT, DEFAULT_LON)]
    /\ resolves = 0

----------------------------------------------------------------------------
(* ChatUI: one Streamlit session of chat_app/streamlit_chat_app.py *)

\* the successive values "async for text in result.stream()" may deliver
StreamTexts == <<"He", "Hello">>

TextIndex(t) == IF t = "" THEN 0 ELSE CHOOSE i \in 1..Len(StreamTexts) : StreamTexts[i] = t

\* a session that reads the file again on every script run
InitializedSessionAlways == GetMessagesOf(file).out

\* _initialize_session, lines 228-234: the file is read only when the
\* session has no message list yet
InitializedSession ==
    IF sessionInit THEN session ELSE GetMessagesOf(file).out

\* a script run without chat input: ChatUI(), display_messages, and
\* handle_user_input finding no prompt (line 257)
ScriptRun ==
    /\ pc \in {"idle", "aborted"}
    /\ sessionInit' = TRUE
    /\ session' = InitializedSession
    /\ pc' = "idle"
    /\ UNCHANGED <<prompt, fullResponse, streams, turn, log, turnFile>>

\* a script run with chat input, up to the user message: lines 257-262
BeginTurn(p) ==
    /\ pc \in {"idle", "aborted"}
    /\ sessionInit' = TRUE
    /\ session' = Append(InitializedSession, UserPrompt(p))
    /\ prompt' = p
    /\ pc' = "user_appended"
    /\ turn' = turn + 1
    /\ log' = <<"user_appended">>
    /\ turnFile' = file
    /\ UNCHANGED <<fullResponse, streams>>

\* loop.run_until_complete(_process_response(...)) enters run_stream,
\* lines 238-241 and 269-273
StreamStart ==
    /\ pc = "user_appended"
    /\ fullResponse' = ""
    /\ streams' = streams + 1
    /\ pc' = "streaming"
    /\ log' = Append(log, "stream_started")
    /\ UNCHANGED <<sessionInit, session, prompt, turn, turnFile>>

\* one iteration of "async for text in result.stream()", lines 242-244
StreamText(t) ==
    /\ pc = "streaming"
    /\ TextIndex(t) > TextIndex(fullResponse)
    /\ fullResponse' = t
    /\ UNCHANGED <<sessionInit, session, prompt, streams, turn, log, turnFile, pc>>

\* the model calls the create_location_map tool during the stream
ToolCall(name, answer) ==
    /\ pc = "streaming"
    /\ fullResponse = ""
    /\ log[Len(log)] # "tool_call"
    /\ CreateLocationMap(name, answer)
    /\ log' = Append(log, "tool_call")
    /\ UNCHANGED <<sessionInit, session, prompt, fullResponse, streams, turn,
                   turnFile, pc>>

\* a failure handler that stores the user message
StreamFailPersisting ==
    /\ pc = "streaming"
    /\ streams' = streams - 1
    /\ pc' = "aborted"
    /\ log' = Append(log, "aborted")
    /\ AddMessages(<<UserPrompt(prompt)>>)
    /\ UNCHANGED <<sessionInit, session, prompt, fullResponse, turn, turnFile>>

\* the agent call raises: nothing in handle_user_input or _process_response
\* catches it (lines 236-246, 269-273), "async with" closes the stream and
\* the script run ends with the exception
StreamFail ==
    /\ pc = "streaming"
    /\ streams' = streams - 1
    /\ pc' = "aborted"
    /\ log' = Append(log, "aborted")
    /\ UNCHANGED <<sessionInit, session, prompt, fullResponse, turn, turnFile>>
    /\ UNCHANGED storeVars

\* the stream ends; run_until_complete returns, lines 245-246 and 271-274
StreamComplete ==
    /\ pc = "streaming"
    /\ streams' = streams - 1
    /\ pc' = "completed"
    /\ log' = Append(log, "stream_completed")
    /\ UNCHANGED <<sessionInit, session, prompt, fullResponse, turn, turnFile>>

\* "if full_response:" holds: the assistant message joins the session,
\* lines 276-281
AssistantAppend ==
    /\ pc = "completed"
    /\ fullResponse # ""
    /\ session' = Append(session, ModelTextResponse(fullResponse))
    /\ pc' = "ai_appended"
    /\ log' = Append(log, "assistant_appended")
    /\ UNCHANGED <<sessionInit, prompt, fullResponse, streams, turn, turnFile>>

\* "if full_response:" fails: handle_user_input returns, nothing is stored
SkipEmptyResponse ==
    /\ pc = "completed"
    /\ fullResponse = ""
    /\ pc' = "idle"
    /\ log' = Append(log, "turn_finished")
    /\ UNCHANGED <<sessionInit, session, prompt, fullResponse, streams, turn, turnFile>>

\* a driver that stores the turn before the stream has ended
PersistEarly ==
    /\ pc \in {"streaming", "ai_appended"}
    /\ AddMessages(<<UserPrompt(prompt), ModelTextResponse(fullResponse)>>)
    /\ pc' = IF pc = "streaming" THEN pc ELSE "idle"
    /\ log' = Append(log, "store_append")
    /\ UNCHANGED <<sessionInit, session, prompt, fullResponse, streams, turn, turnFile>>

\* self.database.add_messages([user_message, ai_message]), line 284; the
\* turn is finished
Persist ==
    /\ pc = "ai_appended"
    /\ AddMessages(<<UserPrompt(prompt), ModelTextResponse(fullResponse)>>)
    /\ pc' = "idle"
    /\ log' = Append(log, "store_append")
    /\ UNCHANGED <<sessionInit, session, prompt, fullResponse, streams, turn, turnFile>>

UiInit ==
    /\ sessionInit = FALSE
    /\ session = <<>>
    /\ pc = "idle"
    /\ prompt = ""
    /\ fullResponse = ""
    /\ streams = 0
    /\ turn = 0
    /\ log = <<>>
    /\ turnFile = <<>>

----------------------------------------------------------------------------
(* chatbot.py: the session list and the Clear Chat button *)

\* a script run with chat input whose completion streams resp: lines 22-53
CbTurn(p, resp) ==
    /\ cbMessages' = cbMessages \o <<Msg("user", p, Absent), Msg("assistant", resp, Absent)>>
    /\ UNCHANGED cbCleared

\* a script run with chat input whose completion call raises: lines 22-43
CbTurnFails(p) ==
    /\ cbMessages' = Append(cbMessages, Msg("user", p, Absent))
    /\ UNCHANGED cbCleared

\* a script run with the Clear Chat button pressed: lines 56-58
CbClearChat ==
    /\ cbMessages' = <<>>
    /\ cbCleared' = (cbCleared \/ cbMessages # <<>>)

CbInit == cbMessages = <<>> /\ cbCleared = FALSE

----------------------------------------------------------------------------
(* Specifications *)

\* everything but the file starts as at process and session start
RestInit == MapInit /\ UiInit /\ CbInit

EmptyFileInit == StoreInit /\ RestInit

notStore == <<mapVars, uiVars, cbVars>>

\* MessageDatabase on an initially empty file
StoreNext ==
    \/ \E messages \in SeqsUpTo(MessageObjects, MaxMsgs - CountElems(file)) :
          CountLines(file) < MaxLines /\ AddMessages(messages) /\ UNCHANGED notStore
    \/ GetMessages /\ UNCHANGED notStore

SpecStore == EmptyFileInit /\ [][StoreNext]_vars

\* get_messages on files of any content
LoadNext ==
    \/ \E chunk \in {Blank, Garbage, NonArrayText, ArrayText(<<>>)} :
          CountLines(file) < MaxLines /\ ExternalWriteLine(chunk) /\ UNCHANGED notStore
    \/ \E e \in FileElements :
          CountElems(file) < MaxFileElems /\ ExternalWriteElement(e) /\ UNCHANGED notStore
    \/ GetMessages /\ UNCHANGED notStore

SpecLoad == EmptyFileInit /\ [][LoadNext]_vars

\* map resolution by the tool and by app.py
MapNext ==
    \/ \E name \in PlaceNames, answer \in GeocoderAnswers :
          /\ resolves < MaxResolves
          /\ CreateLocationMap(name, answer)
          /\ UNCHANGED <<appCache, appCalls, appSession, storeVars, uiVars, cbVars>>
    \/ \E name \in PlaceNames \cup {""}, answer \in GeocoderAnswers :
          /\ resolves < MaxResolves
          /\ AppScript(name, answer)
          /\ UNCHANGED <<geoCache, geoCalls, mapState, storeVars, uiVars, cbVars>>

SpecMap == EmptyFileInit /\ [][MapNext]_vars

\* the files a chat_app session may start from: none, or one stored turn
InitialFiles ==
    {<<>>, AppendedText(<<UserPrompt("Hi"), ModelTextResponse("Hello")>>)}

UiStoreInit ==
    /\ file \in InitialFiles
    /\ loaded = <<>>
    /\ loadStatus = "none"
    /\ written = <<>>
    /\ addStatus = "none"

SessionStartInit == UiStoreInit /\ RestInit

\* one chat_app session
UiNext ==
    \/ ScriptRun /\ UNCHANGED <<storeVars, mapVars, cbVars>>
    \/ \E p \in Contents :
          turn < MaxTurns /\ BeginTurn(p) /\ UNCHANGED <<storeVars, mapVars, cbVars>>
    \/ StreamStart /\ UNCHANGED <<storeVars, mapVars, cbVars>>
    \/ \E t \in {"He", "Hello"} :
          StreamText(t) /\ UNCHANGED <<storeVars, mapVars, cbVars>>
    \/ \E answer \in GeocoderAnswers :
          /\ resolves < MaxResolves
          /\ ToolCall("Kaohsiung", answer)
          /\ UNCHANGED <<storeVars, appCache, appCalls, appSession, cbVars>>
    \/ StreamFail /\ UNCHANGED <<mapVars, cbVars>>
    \/ StreamComplete /\ UNCHANGED <<storeVars, mapVars, cbVars>>
    \/ AssistantAppend /\ UNCHANGED <<storeVars, mapVars, cbVars>>
    \/ SkipEmptyResponse /\ UNCHANGED <<storeVars, mapVars, cbVars>>
    \/ Persist /\ UNCHANGED <<mapVars, cbVars>>

SpecUI == SessionStartInit /\ [][UiNext]_vars

\* the session lists of both chat applications: a chat_app session with
\* one prompt text and a geocoder that finds nothing, and a chatbot.py
\* session
SessionNext ==
    \/ ScriptRun /\ UNCHANGED <<storeVars, mapVars, cbVars>>
    \/ turn < MaxTurns /\ BeginTurn("Hi") /\ UNCHANGED <<storeVars, mapVars, cbVars>>
    \/ StreamStart /\ UNCHANGED <<storeVars, mapVars, cbVars>>
    \/ \E t \in {"He", "Hello"} :
          StreamText(t) /\ UNCHANGED <<storeVars, mapVars, cbVars>>
    \/ /\ resolves < MaxResolves
       /\ ToolCall("Kaohsiung", [kind |-> "none", c |-> NoCoord])
       /\ UNCHANGED <<storeVars, appCache, appCalls, appSession, cbVars>>
    \/ StreamFail /\ UNCHANGED <<mapVars, cbVars>>
    \/ StreamComplete /\ UNCHANGED <<storeVars, mapVars, cbVars>>
    \/ AssistantAppend /\ UNCHANGED <<storeVars, mapVars, cbVars>>
    \/ SkipEmptyResponse /\ UNCHANGED <<storeVars, mapVars, cbVars>>
    \/ Persist /\ UNCHANGED <<mapVars, cbVars>>
    \/ \E resp \in {"", "Hello"} :
          /\ Len(cbMessages) + 2 <= MaxCbLen
          /\ CbTurn("Hi", resp)
          /\ UNCHANGED <<storeVars, mapVars, uiVars>>
    \/ /\ Len(cbMessages) + 1 <= MaxCbLen
       /\ CbTurnFails("Hi")
       /\ UNCHANGED <<storeVars, mapVars, uiVars>>
    \/ CbClearChat /\ UNCHANGED <<storeVars, mapVars, uiVars>>

SpecSession == SessionStartInit /\ [][SessionNext]_vars

----------------------------------------------------------------------------
(* Properties of the message store *)

IsPrefix(a, b) == Len(a) <= Len(b) /\ SubSeq(b, 1, Len(a)) = a

\* C1: after add_messages calls on an initially empty file, with every
\* message's role in the role table, get_messages yields exactly the
\* (role, content) pairs written, in the order written.
C1_RoundTrip ==
    (loadStatus = "done" /\ \A i \in 1..Len(written) : written[i][1] \in KnownRoles)
        => Pairs(loaded) = written

\* a line that is one JSON array, white space aside
WellFormedLine(line) ==
    /\ Len(Strip(line)) = 1
    /\ Strip(line)[1].t = "text"
    /\ Strip(line)[1].j = "array"

\* an array element that is a message the role's class can be built from
GoodElement(e) ==
    /\ e.kind = "object"
    /\ DecodeField(e.role) \in KnownRoles
    /\ DecodeField(e.timestamp) \in {Absent, IsoText} \/ ~IsStr(DecodeField(e.timestamp))
    /\ Keys(e) \subseteq InitParams(RoleToClass(DecodeField(e.role)))
    /\ RequiredParams(RoleToClass(DecodeField(e.role))) \subseteq Keys(e)

\* the (role, content) pairs of the good elements of the well-formed lines
\* among the first n chunks of line l and the lines before it
RECURSIVE GoodPairsUpTo(_, _, _)
GoodPairsUpTo(lines, l, n) ==
    IF l = 0 THEN <<>>
    ELSE IF ~WellFormedLine(lines[l]) \/ n = 0
         THEN GoodPairsUpTo(lines, l - 1,
                  IF l > 1 /\ WellFormedLine(lines[l - 1])
                  THEN Len(Strip(lines[l - 1])[1].elems) ELSE 0)
         ELSE IF GoodElement(Strip(lines[l])[1].elems[n])
              THEN Append(GoodPairsUpTo(lines, l, n - 1),
                          <<DecodeField(Strip(lines[l])[1].elems[n].role),
                            DecodeField(Strip(lines[l])[1].elems[n].content)>>)
              ELSE GoodPairsUpTo(lines, l, n - 1)

ExpectedPairs(f) ==
    LET lines == SplitLines(f) IN
    GoodPairsUpTo(lines, Len(lines),
        IF f # <<>> /\ WellFormedLine(lines[Len(lines)])
        THEN Len(Strip(lines[Len(lines)])[1].elems) ELSE 0)

IsKnownPair(p) == p[1] \in KnownRoles

\* C3: after a turn with a message of unrecognized role was appended, the
\* load does not raise, the unknown-role message is absent and every
\* recognized-role message is present in its original order.
C3_UnknownRoleSkipped ==
    (loadStatus # "none" /\ \E i \in 1..Len(written) : ~IsKnownPair(written[i]))
        => /\ loadStatus = "done"
           /\ Pairs(loaded) = SelectSeq(written, IsKnownPair)

\* the (role, content) pairs json.loads gives for the last line of f
LastLinePairs(f) ==
    [i \in 1..Len(JsonLoads(SplitLines(f)[Len(SplitLines(f))]).v) |->
        <<JsonLoads(SplitLines(f)[Len(SplitLines(f))]).v[i].role,
          JsonLoads(SplitLines(f)[Len(SplitLines(f))]).v[i].content>>]

\* C4: the file is append-only: every step keeps the old lines as a prefix
\* of the new ones; a successful add_messages adds exactly one line, the
\* JSON array of that call's messages; a failed add_messages and
\* get_messages leave the file unchanged.
C4_AppendOnly ==
    [][/\ IsPrefix(SplitLines(file), SplitLines(file'))
       /\ loadStatus' # "none" => file' = file
       /\ (loadStatus' = "none" /\ addStatus' = "raised") => file' = file
       /\ (loadStatus' = "none" /\ addStatus' = "ok") =>
             /\ Len(SplitLines(file')) = Len(SplitLines(file)) + 1
             /\ WellFormedLine(SplitLines(file')[Len(SplitLines(file'))])
             /\ written' = written \o LastLinePairs(file')]_vars

\* two lines were appended and then read back
C4_Witness ==
    /\ CountLines(file) = 2
    /\ CountElems(file) >= 2
    /\ loadStatus = "done"

----------------------------------------------------------------------------
(* Properties of map resolution *)

Fallback == Coord(DEFAULT_LAT, DEFAULT_LON)

\* C5: a resolution whose geocoder call raises or finds nothing yields the
\* fallback coordinate, emits the notice and still builds the map (stored
\* in st.session_state.map by create_location_map); a match yields the
\* matched coordinates without a notice.
C5_GeocodingMissFallsBack ==
    lastResolve.by # "none" =>
        /\ lastResolve.map = CreateMap(lastResolve.c, lastResolve.name)
        /\ lastResolve.by = "tool" => mapState = lastResolve.map
        /\ lastResolve.by = "app" => appSession.c = lastResolve.c
        /\ lastResolve.answer.kind \in {"raise", "none"} =>
              /\ lastResolve.c = Fallback
              /\ lastResolve.notice
        /\ lastResolve.answer.kind = "match" =>
              /\ lastResolve.c = lastResolve.answer.c
              /\ ~lastResolve.notice

\* the tool met a geocoder that raised, after a match for another name
C5_Witness ==
    /\ lastResolve.by = "tool"
    /\ lastResolve.answer.kind = "raise"
    /\ mapState = CreateMap(Fallback, lastResolve.name)
    /\ \E n \in PlaceNames : geoCache[n].hit /\ geoCache[n].v.found

\* C6: within one process the geocoder is consulted at most once per place
\* name, and every resolution of a name gives the coordinates its first
\* resolution gave, whatever the geocoder would answer later.
C6_Memoized ==
    /\ \A n \in PlaceNames : geoCalls[n] <= 1 /\ appCalls[n] <= 1
    /\ lastResolve.by # "none" =>
          /\ firstCoords[<<lastResolve.by, lastResolve.name>>].seen
          /\ firstCoords[<<lastResolve.by, lastResolve.name>>].c = lastResolve.c

\* a name whose first lookup failed is resolved again from the cache
C6_Witness ==
    /\ resolves >= 2
    /\ lastResolve.by = "tool"
    /\ lastResolve.answer.kind = "cached"
    /\ lastResolve.notice
    /\ geoCalls[lastResolve.name] = 1

----------------------------------------------------------------------------
(* Properties of the sessions *)

\* C7 as stated: both session lists only ever grow by appending.
C7_SessionsOnlyGrow ==
    [][IsPrefix(session, session') /\ IsPrefix(cbMessages, cbMessages')]_vars

\* C7, amended: the chat_app session list only grows by appending; the
\* chatbot.py list only grows by appending or is emptied by Clear Chat.
C7_GrowOrCleared ==
    [][/\ IsPrefix(session, session')
       /\ IsPrefix(cbMessages, cbMessages') \/ cbMessages' = <<>>]_vars

\* the chat_app session grew past its hydrated turn and the chatbot.py list
\* grew again after a Clear Chat
C7_Witness ==
    /\ Len(session) >= 4
    /\ cbCleared
    /\ Len(cbMessages) >= 2

\* the orders of events a turn may show
FullTurns ==
    {<<"user_appended", "stream_started", "stream_completed",
       "assistant_appended", "store_append">>,
     <<"user_appended", "stream_started", "tool_call", "stream_completed",
       "assistant_appended", "store_append">>,
     <<"user_appended", "stream_started", "stream_completed", "turn_finished">>,
     <<"user_appended", "stream_started", "tool_call", "stream_completed",
       "turn_finished">>,
     <<"user_appended", "stream_started", "aborted">>,
     <<"user_appended", "stream_started", "tool_call", "aborted">>}

TurnOver ==
    log = <<>> \/ log[Len(log)] \in {"store_append", "turn_finished", "aborted"}

\* C8: the events of a turn occur in the order user message appended,
\* stream started, optional tool call, stream completed, assistant message
\* appended, store append; at most one stream is open, and only between its
\* start and its end; a turn begins only when the one before is over.
C8_TurnIsLinear ==
    /\ [](/\ \E full \in FullTurns : IsPrefix(log, full)
          /\ streams \in {0, 1}
          /\ streams = 1 <=> pc = "streaming")
    /\ [][/\ turn' # turn => (TurnOver /\ streams = 0 /\ log' = <<"user_appended">>)
          /\ file' # file => (pc = "ai_appended" /\ streams = 0)]_vars

\* a second turn with a tool call ran to its store append
C8_Witness ==
    /\ turn = 2
    /\ log = <<"user_appended", "stream_started", "tool_call", "stream_completed",
               "assistant_appended", "store_append">>
    /\ CountLines(file) >= 2

\* C9: when the agent call raises the turn is aborted: the session ends
\* with the turn's user message, no assistant message was appended and the
\* file is as it was before the turn.
C9_FailureAbortsTurn ==
    pc = "aborted" =>
        /\ file = turnFile
        /\ streams = 0
        /\ Len(session) >= 1
        /\ session[Len(session)] = UserPrompt(prompt)

\* the stream failed after some text had arrived, in a second turn
C9_Witness ==
    /\ pc = "aborted"
    /\ fullResponse = "He"
    /\ turn = 2
    /\ CountLines(file) >= 1

\* C10: after every finished call of handle_user_input the session list
\* equals, as (role, content) pairs, the concatenation of the lines of the
\* file.
C10_SessionEqualsFile ==
    (pc = "idle" /\ sessionInit /\ log # <<>>
        /\ log[Len(log)] \in {"store_append", "turn_finished"})
        => Pairs(session) = Pairs(GetMessagesOf(file).out)

====
